---- MODULE Spec2Model ----
(***************************************************************************)
(* Model of the market-making bot of src/src/main.py: the orchestrator     *)
(* (run, cleanup, the signal handler of bootstrap), the cancel-replace     *)
(* loop (refresh_quotes, _cancel_stale_orders, _place_quote), the          *)
(* auto-redeem loop and the feed listener with its book-update handler.    *)
(* asyncio is single-threaded and cooperative: every action below runs     *)
(* from one suspension point (an await of I/O or of a sleep) to the next.  *)
(*                                                                         *)
(* Prices are integers in ticks of 1/One; times are integers in units of   *)
(* milliseconds scaled down; the venue is the set of its open orders.      *)
(***************************************************************************)
EXTENDS Integers, FiniteSets, Sequences, TLC

\* ---------------------------------------------------------------- bounds
\* The wall clock stops advancing at MaxTime.
MaxTime == 4
\* At most MaxCycles calls of refresh_quotes get past the throttle.
MaxCycles == 2

\* ------------------------------------------------------- scale, settings
\* The price 1.0 (the default of best_ask, the bound of the validity check).
One == 10
\* What float() cannot convert: a value of the book that is not a number.
NotANumber == -1
\* settings.quote_refresh_rate_ms
RefreshRate == 2
\* settings.order_lifetime_ms
Lifetime == 1
\* time.time() * 1000 at startup: far above any refresh rate, so the first
\* call of refresh_quotes (last_quote_time = 0.0) always passes the throttle.
Epoch == RefreshRate

\* ------------------------------------------------------------- the book
\* A dict is a function from its keys; {} is the function of no key.
EmptyDict == [k \in {} |-> 0]
\* dict.get(key, default)
Get(d, k, dflt) == IF k \in DOMAIN d THEN d[k] ELSE dflt
\* The truth value of a dict: {} is falsy.
Truthy(d) == DOMAIN d # {}

Book(bid, ask, seq) == [best_bid |-> bid, best_ask |-> ask, sequence |-> seq]
\* What GET /book may answer: an empty object, a book inside (0, 1), a book
\* around 1, a crossed book above 1, a book whose best_bid is not a number.
RestBooks ==
    {EmptyDict, Book(4, 6, 1), Book(4, 12, 1), Book(12, 11, 1),
     Book(NotANumber, 12, 1)}
\* The books of the feed's messages: the next sequence, a sequence beyond it.
FeedBooks == {Book(4, 12, 2), Book(4, 12, 3), Book(4, 6, 3)}
\* The feed's messages: book updates of the configured market with and
\* without a "book", a book update of another market, another message type.
FeedMessages ==
    {[type |-> "l2_book_update", market |-> "mine", book |-> b] : b \in FeedBooks}
      \cup {[type |-> "l2_book_update", market |-> "mine"],
            [type |-> "l2_book_update", market |-> "other", book |-> Book(4, 12, 2)],
            [type |-> "trade", market |-> "mine", book |-> Book(4, 12, 2)]}

\* ------------------------------------------------- inventory, risk gate
\* The inventory the ledger holds is the imbalance (yes - no) / (yes + no),
\* rounded to -1, 0 or 1, and the net exposure.
\* settings.max_exposure_usd
MaxExposure == 20

\* RiskManager.validate_order(side, notional): "accept" or the reason of the
\* rejection. Above 0.8 of the maximal exposure only reducing orders pass.
validate_order(side, notional, inv) ==
    IF side = "BUY" /\ 10 * inv.exposure > 8 * MaxExposure
    THEN "exposure_increases_wrong_direction"
    ELSE IF side = "BUY" /\ inv.exposure + notional > MaxExposure
    THEN "exceeds_max_exposure"
    ELSE "accept"

\* --------------------------------------------------------- quote engine
MinHalfSpread == 1
WidenFactor == 1
SkewCoefficient == 2
BaseSize == 2
MinSize == 1
MaxSize == 3

Outcomes == {"YES", "NO"}
NoQuote == [side |-> "NONE", price |-> 0, size |-> 0]

Max(a, b) == IF a >= b THEN a ELSE b
Min(a, b) == IF a <= b THEN a ELSE b
Abs(a) == IF a >= 0 THEN a ELSE 0 - a
\* quantize_down and quantize_up of x / 2 to a whole tick.
FloorHalf(x) == x \div 2
CeilHalf(x) == 0 - ((0 - x) \div 2)

\* The YES bid and ask of the cycle: mid -/+ half-spread - skew.
YesBid(bid, ask, imb) ==
    FloorHalf((bid + ask)
              - Max(2 * MinHalfSpread, (ask - bid) * WidenFactor)
              - 2 * imb * SkewCoefficient)
YesAsk(bid, ask, imb) ==
    CeilHalf((bid + ask)
             + Max(2 * MinHalfSpread, (ask - bid) * WidenFactor)
             - 2 * imb * SkewCoefficient)

\* The price of each side of each outcome; NO is the complement of YES.
QuotePrice(outcome, side, bid, ask, imb) ==
    IF outcome = "YES"
    THEN IF side = "BUY" THEN YesBid(bid, ask, imb) ELSE YesAsk(bid, ask, imb)
    ELSE IF side = "BUY" THEN One - YesAsk(bid, ask, imb)
                         ELSE One - YesBid(bid, ask, imb)

\* A side is suppressed when its price leaves (0, 1) or crosses the opposite
\* side of the outcome's book (the NO book is the complement of the YES book).
Suppressed(outcome, side, price, bid, ask) ==
    LET obid == IF outcome = "YES" THEN bid ELSE One - ask
        oask == IF outcome = "YES" THEN ask ELSE One - bid
    IN  \/ ~(0 < price /\ price < One)
        \/ side = "BUY" /\ price >= oask
        \/ side = "SELL" /\ price <= obid

\* base_size scaled down on the accumulating side and up on the reducing
\* side, clamped to [min_size, max_size].
QuoteSize(outcome, side, imb) ==
    LET accumulating ==
            \/ imb > 0 /\ ((outcome = "YES") = (side = "BUY"))
            \/ imb < 0 /\ ((outcome = "NO") = (side = "BUY"))
        raw == IF imb = 0 THEN BaseSize
               ELSE IF accumulating THEN BaseSize * (1 - Abs(imb))
               ELSE BaseSize * (1 + Abs(imb))
    IN  Max(MinSize, Min(MaxSize, raw))

\* The quotes the engine may emit for one outcome: one of its sides that is
\* not suppressed, or none when both are.
QuoteChoices(outcome, bid, ask, imb) ==
    LET live == {side \in {"BUY", "SELL"} :
                   ~Suppressed(outcome, side,
                               QuotePrice(outcome, side, bid, ask, imb), bid, ask)}
    IN  IF live = {} THEN {NoQuote}
        ELSE {[side |-> side,
               price |-> QuotePrice(outcome, side, bid, ask, imb),
               size |-> QuoteSize(outcome, side, imb)] : side \in live}

\* QuoteEngine.generate_quotes: the (yes_quote, no_quote) pairs it may return.
generate_quotes(bid, ask, imb) ==
    {[YES |-> y, NO |-> n] : y \in QuoteChoices("YES", bid, ask, imb),
                             n \in QuoteChoices("NO", bid, ask, imb)}

\* ----------------------------------------------- the checks of main.py
\* A throttle that compares the wrong way round.
Throttled_Inverted(current_time, last) == current_time - last > RefreshRate

\* refresh_quotes: elapsed < quote_refresh_rate_ms.
Throttled(current_time, last) == current_time - last < RefreshRate

\* refresh_quotes: the validity check of the book.
InvalidOrderbook(best_bid, best_ask) == best_bid <= 0 \/ best_ask <= One

\* An aging test that cancels every open order, whatever its age.
IsStale_Always(age) == TRUE

\* An aging test that is one unit late.
IsStale_Late(age) == age > Lifetime + 1

\* _cancel_stale_orders: age > order_lifetime_ms.
IsStale(age) == age > Lifetime

\* _cancel_stale_orders: the ids of the orders to cancel.
StaleIds(open_orders, current_time) ==
    {o.id : o \in {x \in open_orders : IsStale(current_time - x.timestamp)}}

\* An update whose sequence is beyond the sequence after the book's.
IsGap(data, book) ==
    /\ "book" \in DOMAIN data
    /\ Get(data.book, "sequence", 0) > Get(book, "sequence", 0) + 1

\* A handler that drops an update after a sequence gap.
HandledBook_DropGap(data, book) ==
    IF Get(data, "market", "none") = "mine" /\ ~IsGap(data, book)
    THEN Get(data, "book", book)
    ELSE book

\* _handle_orderbook_update: the book after the handler saw data.
HandledBook(data, book) ==
    IF Get(data, "market", "none") = "mine" THEN Get(data, "book", book) ELSE book

\* ---------------------------------------------------------------- state
VARIABLES
    settings,           \* market_discovery_enabled, auto_redeem_enabled
    inventory,          \* the inventory snapshot the engine and the gate read
    running,            \* MarketMakerBot.running
    signalled,          \* _handle_signal has run
    mainPc,             \* where run() stands
    exitHow,            \* how run() ended: "none", "returned", "raised"
    gatherRaised,       \* asyncio.gather ended because a task raised
    cancelAllCalled,    \* cleanup has called cancel_all_orders
    closed,             \* the transports cleanup has closed
    ws,                 \* the feed client: websocket, running, handler
    current_orderbook,  \* MarketMakerBot.current_orderbook
    last_quote_time,    \* MarketMakerBot.last_quote_time
    prev_quote_time,    \* last_quote_time before the latest cycle (history)
    lastCall,           \* how the last call of refresh_quotes began (history)
    now,                \* time.time() * 1000
    venueOrders,        \* the open orders at the venue
    crPc,               \* where run_cancel_replace_cycle stands
    cyc,                \* the locals and the record of the current cycle
    arPc,               \* where run_auto_redeem stands
    wsPc,               \* where ws_client.listen stands
    lastFeed,           \* what the listener did with its last message (history)
    backoff,            \* the failed iterations in a row and the sleep after
                        \* the last of them (history)
    redeem              \* the locals and the record of one auto_redeem_all call

vars == <<settings, inventory, running, signalled, mainPc, exitHow, gatherRaised,
          cancelAllCalled, closed, ws, current_orderbook, last_quote_time,
          prev_quote_time, lastCall, now, venueOrders, crPc, cyc, arPc, wsPc,
          lastFeed, backoff, redeem>>

\* Everything but the auto_redeem_all call.
botVars == <<settings, inventory, running, signalled, mainPc, exitHow, gatherRaised,
             cancelAllCalled, closed, ws, current_orderbook, last_quote_time,
             prev_quote_time, lastCall, now, venueOrders, crPc, cyc, arPc, wsPc,
             lastFeed, backoff>>

orchVars == <<mainPc, exitHow, gatherRaised, cancelAllCalled, closed>>
cycleVars == <<last_quote_time, prev_quote_time, lastCall, crPc, cyc>>

\* The configurations the bot is started with: the feed on and off,
\* auto-redeem on and off, a flat and a long inventory.
Configurations ==
    {[settings |-> [market_discovery_enabled |-> TRUE, auto_redeem_enabled |-> TRUE],
      inventory |-> [imbalance |-> 1, exposure |-> 14]],
     [settings |-> [market_discovery_enabled |-> FALSE, auto_redeem_enabled |-> FALSE],
      inventory |-> [imbalance |-> 0, exposure |-> 0]]}

\* A cycle before refresh_quotes has done anything.
IdleCycle ==
    [n |-> 0, emptyAtSnapshot |-> FALSE, refill |-> "none", book |-> EmptyDict,
     best_bid |-> 0, best_ask |-> 0, verdict |-> "none",
     quotes |-> [YES |-> NoQuote, NO |-> NoQuote],
     cancel |-> "none", fetched |-> "none", open_orders |-> {}, cancel_time |-> 0,
     batch |-> {}, batchCalled |-> FALSE,
     risk |-> [YES |-> "none", NO |-> "none"], placeCalls |-> {},
     placeCount |-> [YES |-> 0, NO |-> 0], placeRaised |-> {},
     afterCancelAll |-> {}]

\* auto_redeem_all before it is called.
IdleRedeem ==
    [pc |-> "idle", fetch |-> "none", redeemable |-> <<>>, i |-> 0,
     attempts |-> <<>>, succeeded |-> {}, redeemed |-> 0, result |-> 0]

\* No iteration of the cancel-replace loop has failed.
NoBackoff == [failures |-> 0, delay |-> 0]

\* A loop whose sleep after a failed iteration grows with the failures in a
\* row, up to 5 s.
BackoffDelay_Linear(failures) == IF failures <= 5 THEN failures ELSE 5

\* run_cancel_replace_cycle: the seconds slept in the except branch.
BackoffDelay(failures) == 1

\* refresh_quotes raised: one more failed iteration, and its sleep.
Failed(b) ==
    [failures |-> b.failures + 1, delay |-> BackoffDelay(b.failures + 1)]

\* The record of the failures after a step of refresh_quotes that left the
\* loop at pc.
BackoffAfter(pc) == IF pc = "backoff" THEN Failed(backoff) ELSE backoff

NoFeed ==
    [gap |-> FALSE, handled |-> FALSE, mine |-> FALSE, installed |-> FALSE,
     update |-> FALSE, hasBook |-> FALSE]

Init ==
    /\ \E c \in Configurations : settings = c.settings /\ inventory = c.inventory
    /\ running = FALSE
    /\ signalled = FALSE
    /\ mainPc = "start"
    /\ exitHow = "none"
    /\ gatherRaised = FALSE
    /\ cancelAllCalled = FALSE
    /\ closed = {}
    /\ ws = [websocket |-> FALSE, running |-> FALSE, handler |-> FALSE]
    /\ current_orderbook = EmptyDict
    /\ last_quote_time = 0
    /\ prev_quote_time = 0
    /\ lastCall = "none"
    /\ now = Epoch
    /\ venueOrders = {}
    /\ crPc = "off"
    /\ cyc = IdleCycle
    /\ arPc = "off"
    /\ wsPc = "off"
    /\ lastFeed = NoFeed
    /\ backoff = NoBackoff
    /\ redeem = IdleRedeem

\* ------------------------------------------------------ refresh_quotes
\* _place_quote at its call of place_order: the call is counted, and noted
\* when cleanup has already called cancel_all_orders.
PlaceOrderCalled(c, outcome) ==
    [c EXCEPT !.placeCalls = @ \cup {outcome},
              !.placeCount[outcome] = @ + 1,
              !.afterCancelAll = IF cancelAllCalled THEN @ \cup {outcome} ELSE @]

\* A _place_quote that calls place_order whatever the risk gate said.
PlaceQuote_NoGate(c, outcome) ==
    LET q == c.quotes[outcome]
        v == validate_order(q.side, q.size * q.price, inventory)
    IN  [cyc |-> PlaceOrderCalled([c EXCEPT !.risk[outcome] = v], outcome),
         called |-> TRUE]

\* _place_quote up to its await: the risk gate, then the call of place_order.
PlaceQuote(c, outcome) ==
    LET q == c.quotes[outcome]
        v == validate_order(q.side, q.size * q.price, inventory)
    IN  IF v = "accept"
        THEN [cyc |-> PlaceOrderCalled([c EXCEPT !.risk[outcome] = v], outcome),
              called |-> TRUE]
        ELSE [cyc |-> [c EXCEPT !.risk[outcome] = v], called |-> FALSE]

\* refresh_quotes after the YES quote: the NO quote, then the loop's sleep.
AfterYes(c) ==
    IF c.quotes["NO"] # NoQuote
    THEN LET r == PlaceQuote(c, "NO")
         IN  [cyc |-> r.cyc, pc |-> IF r.called THEN "place_no" ELSE "sleep"]
    ELSE [cyc |-> c, pc |-> "sleep"]

\* A _place_quote that calls place_order once more when the call raised.
PlaceRaised_Retry(c, outcome) ==
    LET c1 == [c EXCEPT !.placeRaised = @ \cup {outcome}]
    IN  IF c.placeCount[outcome] < 2
        THEN [cyc |-> PlaceOrderCalled(c1, outcome),
              pc |-> IF outcome = "YES" THEN "place_yes" ELSE "place_no"]
        ELSE IF outcome = "YES" THEN AfterYes(c1) ELSE [cyc |-> c1, pc |-> "sleep"]

\* _place_quote when place_order raised: the except branch logs the error
\* and returns; refresh_quotes goes on with what follows the quote.
PlaceRaised(c, outcome) ==
    LET c1 == [c EXCEPT !.placeRaised = @ \cup {outcome}]
    IN  IF outcome = "YES" THEN AfterYes(c1) ELSE [cyc |-> c1, pc |-> "sleep"]

\* refresh_quotes after _cancel_stale_orders: the YES quote, then the NO quote.
AfterCancel(c) ==
    IF c.quotes["YES"] # NoQuote
    THEN LET r == PlaceQuote(c, "YES")
         IN  IF r.called THEN [cyc |-> r.cyc, pc |-> "place_yes"]
             ELSE AfterYes(r.cyc)
    ELSE AfterYes(c)

\* A refresh_quotes that places its quotes without the cancel step before.
AfterQuotes_PlaceFirst(c) == AfterCancel(c)

\* refresh_quotes after generate_quotes: _cancel_stale_orders up to its await
\* of get_open_orders.
AfterQuotes(c) ==
    [cyc |-> [c EXCEPT !.cancel = "fetching"], pc |-> "get_open_orders"]

\* A refresh_quotes that reads best_ask from the book of the cycle before,
\* another version than the one best_bid is read from.
BestAsk_OtherVersion(orderbook) == Get(cyc.book, "best_ask", One)

\* refresh_quotes: best_bid and best_ask are read from the local orderbook,
\* one after the other with no await between.
BestBid(orderbook) == Get(orderbook, "best_bid", 0)
BestAsk(orderbook) == Get(orderbook, "best_ask", One)

\* refresh_quotes from the read of best_bid and best_ask to its next await:
\* float() raises on what is not a number, an invalid book ends the call,
\* otherwise the quotes q are generated.
Evaluated(c, book, q) ==
    LET bid == BestBid(book)
        ask == BestAsk(book)
        c1 == [c EXCEPT !.book = book]
    IN  IF bid = NotANumber \/ ask = NotANumber
        THEN [cyc |-> [c1 EXCEPT !.verdict = "raised"], pc |-> "backoff"]
        ELSE IF InvalidOrderbook(bid, ask)
        THEN [cyc |-> [c1 EXCEPT !.best_bid = bid, !.best_ask = ask,
                                 !.verdict = "invalid"],
              pc |-> "sleep"]
        ELSE AfterQuotes([c1 EXCEPT !.best_bid = bid, !.best_ask = ask,
                                    !.verdict = "quoted", !.quotes = q])

\* A refresh_quotes that keeps the book it read before the refill.
OrderbookAfterRefill_NotReread(orderbook, current) == orderbook

\* refresh_quotes after its refill: orderbook = self.current_orderbook.
OrderbookAfterRefill(orderbook, current) == current

\* The quotes the engine may return for a book.
QuotesFor(book) ==
    generate_quotes(Get(book, "best_bid", 0), Get(book, "best_ask", One),
                    inventory.imbalance)

\* ----------------------------------------------------- update_orderbook
\* What the await of rest_client.get_orderbook ends with: a book, or an error.
RestAnswers ==
    {[ok |-> TRUE, book |-> b] : b \in RestBooks}
      \cup {[ok |-> FALSE, book |-> EmptyDict]}

\* update_orderbook: current_orderbook after the answer r (an error is logged).
BookAfterUpdate(r) == IF r.ok THEN r.book ELSE current_orderbook

\* update_orderbook: the handler is registered when the websocket exists.
WsAfterUpdate(r) ==
    IF r.ok /\ ws.websocket THEN [ws EXCEPT !.handler = TRUE] ELSE ws

\* asyncio.run ends the event loop when run() has ended: it cancels the tasks
\* that are left, which then take no further step.
LoopAlive == mainPc # "exited"

\* ------------------------------------------- run_cancel_replace_cycle
\* while self.running: the loop ends when running is false.
CR_LoopExit ==
    /\ LoopAlive
    /\ crPc = "loop"
    /\ ~running
    /\ crPc' = "done"
    /\ UNCHANGED <<settings, inventory, redeem, backoff, running, signalled, orchVars, ws,
                   current_orderbook, last_quote_time, prev_quote_time, lastCall, now,
                   venueOrders, cyc, arPc, wsPc, lastFeed>>

\* refresh_quotes returns at once when called too early; the loop sleeps.
CR_Throttled ==
    /\ LoopAlive
    /\ crPc = "loop"
    /\ running
    /\ Throttled(now, last_quote_time)
    /\ crPc' = "sleep"
    /\ lastCall' = "throttled"
    /\ UNCHANGED <<settings, inventory, redeem, backoff, running, signalled, orchVars, ws,
                   current_orderbook, last_quote_time, prev_quote_time, now,
                   venueOrders, cyc, arPc, wsPc, lastFeed>>

\* refresh_quotes past the throttle, up to its first await: the refill of an
\* empty book, or get_open_orders, or the end of the call.
CR_Refresh ==
    /\ LoopAlive
    /\ crPc = "loop"
    /\ running
    /\ ~Throttled(now, last_quote_time)
    /\ cyc.n < MaxCycles
    /\ last_quote_time' = now
    /\ prev_quote_time' = last_quote_time
    /\ lastCall' = "passed"
    /\ LET c0 == [IdleCycle EXCEPT !.n = cyc.n + 1,
                                   !.emptyAtSnapshot = ~Truthy(current_orderbook)]
       IN  IF ~Truthy(current_orderbook)
           THEN /\ cyc' = [c0 EXCEPT !.refill = "requested"]
                /\ crPc' = "update_orderbook"
           ELSE \E q \in QuotesFor(current_orderbook) :
                  LET e == Evaluated(c0, current_orderbook, q)
                  IN  cyc' = e.cyc /\ crPc' = e.pc
    /\ backoff' = BackoffAfter(crPc')
    /\ UNCHANGED <<settings, inventory, redeem, running, signalled, orchVars, ws,
                   current_orderbook, now, venueOrders, arPc, wsPc, lastFeed>>

\* The refill of refresh_quotes returns; the book is read again and the
\* call goes on with it.
CR_RefillReturn ==
    /\ LoopAlive
    /\ crPc = "update_orderbook"
    /\ \E r \in RestAnswers :
         /\ current_orderbook' = BookAfterUpdate(r)
         /\ ws' = WsAfterUpdate(r)
         /\ LET orderbook == OrderbookAfterRefill(EmptyDict, BookAfterUpdate(r))
            IN  \E q \in QuotesFor(orderbook) :
                  LET e == Evaluated([cyc EXCEPT !.refill = IF r.ok THEN "ok" ELSE "failed"],
                                     orderbook, q)
                  IN  cyc' = e.cyc /\ crPc' = e.pc
    /\ backoff' = BackoffAfter(crPc')
    /\ UNCHANGED <<settings, inventory, redeem, running, signalled, orchVars,
                   last_quote_time, prev_quote_time, lastCall, now, venueOrders, arPc,
                   wsPc, lastFeed>>

\* _cancel_stale_orders: get_open_orders returns the venue's open orders and
\* the aged ones go to batch_cancel_orders; or it raises, which is logged.
CR_OpenOrdersReturn ==
    /\ LoopAlive
    /\ crPc = "get_open_orders"
    /\ \/ LET c1 == [cyc EXCEPT !.fetched = "ok", !.open_orders = venueOrders,
                                !.cancel_time = now,
                                !.batch = StaleIds(venueOrders, now)]
          IN  IF c1.batch # {}
              THEN /\ cyc' = [c1 EXCEPT !.cancel = "cancelling", !.batchCalled = TRUE]
                   /\ crPc' = "batch_cancel"
              ELSE LET e == AfterCancel([c1 EXCEPT !.cancel = "finished"])
                   IN  cyc' = e.cyc /\ crPc' = e.pc
       \/ LET e == AfterCancel([cyc EXCEPT !.fetched = "failed", !.cancel = "finished"])
          IN  cyc' = e.cyc /\ crPc' = e.pc
    /\ UNCHANGED <<settings, inventory, redeem, backoff, running, signalled, orchVars, ws,
                   current_orderbook, last_quote_time, prev_quote_time, lastCall, now,
                   venueOrders, arPc, wsPc, lastFeed>>

\* batch_cancel_orders returns: the venue has cancelled some of the batch
\* (best effort), or the call raised, which is logged.
CR_BatchCancelReturn ==
    /\ LoopAlive
    /\ crPc = "batch_cancel"
    /\ \E done \in SUBSET cyc.batch :
         venueOrders' = {o \in venueOrders : o.id \notin done}
    /\ LET e == AfterCancel([cyc EXCEPT !.cancel = "finished"])
       IN  cyc' = e.cyc /\ crPc' = e.pc
    /\ UNCHANGED <<settings, inventory, redeem, backoff, running, signalled, orchVars, ws,
                   current_orderbook, last_quote_time, prev_quote_time, lastCall, now,
                   arPc, wsPc, lastFeed>>

\* place_order of the YES quote returns: the order is open at the venue, or
\* the call raised, which is logged. The NO quote follows.
CR_PlaceYesReturn ==
    /\ LoopAlive
    /\ crPc = "place_yes"
    /\ \/ /\ venueOrders' = venueOrders \cup {[id |-> <<cyc.n, "YES">>, timestamp |-> now]}
          /\ LET e == AfterYes(cyc)
             IN  cyc' = e.cyc /\ crPc' = e.pc
       \/ /\ venueOrders' = venueOrders
          /\ LET e == PlaceRaised(cyc, "YES")
             IN  cyc' = e.cyc /\ crPc' = e.pc
    /\ UNCHANGED <<settings, inventory, redeem, backoff, running, signalled, orchVars, ws,
                   current_orderbook, last_quote_time, prev_quote_time, lastCall, now,
                   arPc, wsPc, lastFeed>>

\* place_order of the NO quote returns; refresh_quotes ends.
CR_PlaceNoReturn ==
    /\ LoopAlive
    /\ crPc = "place_no"
    /\ \/ /\ venueOrders' = venueOrders \cup {[id |-> <<cyc.n, "NO">>, timestamp |-> now]}
          /\ cyc' = cyc
          /\ crPc' = "sleep"
       \/ /\ venueOrders' = venueOrders
          /\ LET e == PlaceRaised(cyc, "NO")
             IN  cyc' = e.cyc /\ crPc' = e.pc
    /\ UNCHANGED <<settings, inventory, redeem, backoff, running, signalled, orchVars, ws,
                   current_orderbook, last_quote_time, prev_quote_time, lastCall, now,
                   arPc, wsPc, lastFeed>>

\* asyncio.sleep(cancel_replace_interval_ms / 1000) returns: the iteration
\* has ended without an exception.
CR_SleepReturn ==
    /\ LoopAlive
    /\ crPc = "sleep"
    /\ crPc' = "loop"
    /\ backoff' = NoBackoff
    /\ UNCHANGED <<settings, inventory, redeem, running, signalled, orchVars, ws,
                   current_orderbook, last_quote_time, prev_quote_time, lastCall, now,
                   venueOrders, cyc, arPc, wsPc, lastFeed>>

\* The loop's except branch: the error is logged, asyncio.sleep(1) returns.
CR_BackoffReturn ==
    /\ LoopAlive
    /\ crPc = "backoff"
    /\ crPc' = "loop"
    /\ UNCHANGED <<settings, inventory, redeem, backoff, running, signalled, orchVars, ws,
                   current_orderbook, last_quote_time, prev_quote_time, lastCall, now,
                   venueOrders, cyc, arPc, wsPc, lastFeed>>

\* ------------------------------------------------------ run_auto_redeem
AR_LoopExit ==
    /\ LoopAlive
    /\ arPc = "loop"
    /\ ~running
    /\ arPc' = "done"
    /\ UNCHANGED <<settings, inventory, redeem, backoff, running, signalled, orchVars, ws,
                   current_orderbook, cycleVars, now, venueOrders, wsPc, lastFeed>>

\* One iteration up to its await: auto_redeem_all when enabled, else the sleep.
AR_Iterate ==
    /\ LoopAlive
    /\ arPc = "loop"
    /\ running
    /\ arPc' = IF settings.auto_redeem_enabled THEN "auto_redeem_all" ELSE "sleep"
    /\ UNCHANGED <<settings, inventory, redeem, backoff, running, signalled, orchVars, ws,
                   current_orderbook, cycleVars, now, venueOrders, wsPc, lastFeed>>

\* auto_redeem_all returns (then sleep(300)) or raises (logged, then sleep(60)).
AR_RedeemReturn ==
    /\ LoopAlive
    /\ arPc = "auto_redeem_all"
    /\ arPc' = "sleep"
    /\ UNCHANGED <<settings, inventory, redeem, backoff, running, signalled, orchVars, ws,
                   current_orderbook, cycleVars, now, venueOrders, wsPc, lastFeed>>

\* The sleep of the iteration returns.
AR_SleepReturn ==
    /\ LoopAlive
    /\ arPc = "sleep"
    /\ arPc' = "loop"
    /\ UNCHANGED <<settings, inventory, redeem, backoff, running, signalled, orchVars, ws,
                   current_orderbook, cycleVars, now, venueOrders, wsPc, lastFeed>>

\* ------------------------------------------------------ the feed listener
\* listen(): a message arrives and goes to the handler registered for its
\* type, which runs before the listener awaits again.
WS_Dispatch(data) ==
    /\ LoopAlive
    /\ wsPc = "listen"
    /\ ws.running
    /\ current_orderbook' =
         IF ws.handler /\ data.type = "l2_book_update"
         THEN HandledBook(data, current_orderbook)
         ELSE current_orderbook
    /\ lastFeed' = [gap |-> IsGap(data, current_orderbook),
                    handled |-> ws.handler /\ data.type = "l2_book_update",
                    mine |-> Get(data, "market", "none") = "mine",
                    installed |-> /\ "book" \in DOMAIN data
                                  /\ current_orderbook' = data.book,
                    update |-> data.type = "l2_book_update",
                    hasBook |-> "book" \in DOMAIN data]
    /\ UNCHANGED <<settings, inventory, redeem, backoff, running, signalled, orchVars, ws,
                   cycleVars, now, venueOrders, arPc, wsPc>>

WS_Receive == \E data \in FeedMessages : WS_Dispatch(data)

\* listen(): the listener returns, because the client's own running flag is
\* false or because the peer closed the connection.
WS_Return ==
    /\ LoopAlive
    /\ wsPc = "listen"
    /\ wsPc' = "done"
    /\ UNCHANGED <<settings, inventory, redeem, backoff, running, signalled, orchVars, ws,
                   current_orderbook, cycleVars, now, venueOrders, arPc, lastFeed>>

\* listen(): the connection fails and the listener raises.
WS_Raise ==
    /\ LoopAlive
    /\ wsPc = "listen"
    /\ ws.running
    /\ wsPc' = "raised"
    /\ UNCHANGED <<settings, inventory, redeem, backoff, running, signalled, orchVars, ws,
                   current_orderbook, cycleVars, now, venueOrders, arPc, lastFeed>>

\* ------------------------------------------------------------------ run()
\* run() up to the await of discover_market.
Run_Start ==
    /\ mainPc = "start"
    /\ running' = TRUE
    /\ mainPc' = "discover_market"
    /\ UNCHANGED <<settings, inventory, redeem, backoff, signalled, exitHow, gatherRaised,
                   cancelAllCalled, closed, ws, current_orderbook, cycleVars,
                   now, venueOrders, arPc, wsPc, lastFeed>>

\* discover_market found the market; run() awaits update_orderbook.
Run_MarketFound ==
    /\ mainPc = "discover_market"
    /\ mainPc' = "update_orderbook"
    /\ UNCHANGED <<settings, inventory, redeem, backoff, running, signalled, exitHow, gatherRaised,
                   cancelAllCalled, closed, ws, current_orderbook, cycleVars,
                   now, venueOrders, arPc, wsPc, lastFeed>>

\* discover_market returned no market (not listed, or get_markets raised,
\* which discover_market catches): run() returns.
Run_MarketMissing ==
    /\ mainPc = "discover_market"
    /\ mainPc' = "exited"
    /\ exitHow' = "returned"
    /\ UNCHANGED <<settings, inventory, redeem, backoff, running, signalled, gatherRaised,
                   cancelAllCalled, closed, ws, current_orderbook, cycleVars,
                   now, venueOrders, arPc, wsPc, lastFeed>>

\* Discovery disabled: get_market_info raises and nothing catches it.
Run_MarketInfoRaises ==
    /\ mainPc = "discover_market"
    /\ ~settings.market_discovery_enabled
    /\ mainPc' = "exited"
    /\ exitHow' = "raised"
    /\ UNCHANGED <<settings, inventory, redeem, backoff, running, signalled, gatherRaised,
                   cancelAllCalled, closed, ws, current_orderbook, cycleVars,
                   now, venueOrders, arPc, wsPc, lastFeed>>

\* asyncio.gather(*tasks): the loops start, and the listener when the feed
\* client is running.
StartTasks ==
    /\ mainPc' = "gather"
    /\ crPc' = "loop"
    /\ arPc' = "loop"

\* The startup update_orderbook returns; then the feed is connected when
\* discovery is enabled, else the tasks start.
Run_OrderbookReturn ==
    /\ mainPc = "update_orderbook"
    /\ \E r \in RestAnswers :
         /\ current_orderbook' = BookAfterUpdate(r)
         /\ ws' = WsAfterUpdate(r)
    /\ IF settings.market_discovery_enabled
       THEN /\ mainPc' = "connect"
            /\ UNCHANGED <<crPc, arPc, wsPc>>
       ELSE /\ StartTasks
            /\ wsPc' = IF ws.running THEN "listen" ELSE "off"
    /\ UNCHANGED <<settings, inventory, redeem, backoff, running, signalled, exitHow, gatherRaised,
                   cancelAllCalled, closed, last_quote_time, prev_quote_time, lastCall,
                   cyc, now, venueOrders, lastFeed>>

\* ws_client.connect() returns: the websocket exists and the client runs.
Run_Connected ==
    /\ mainPc = "connect"
    /\ ws' = [ws EXCEPT !.websocket = TRUE, !.running = TRUE]
    /\ mainPc' = "subscribe"
    /\ UNCHANGED <<settings, inventory, redeem, backoff, running, signalled, exitHow, gatherRaised,
                   cancelAllCalled, closed, current_orderbook, cycleVars, now,
                   venueOrders, arPc, wsPc, lastFeed>>

\* ws_client.connect() or subscribe_orderbook() raises: run() ends with it.
Run_FeedRaises ==
    /\ mainPc \in {"connect", "subscribe"}
    /\ mainPc' = "exited"
    /\ exitHow' = "raised"
    /\ UNCHANGED <<settings, inventory, redeem, backoff, running, signalled, gatherRaised,
                   cancelAllCalled, closed, ws, current_orderbook, cycleVars,
                   now, venueOrders, arPc, wsPc, lastFeed>>

\* subscribe_orderbook() returns; the tasks start.
Run_Subscribed ==
    /\ mainPc = "subscribe"
    /\ StartTasks
    /\ wsPc' = IF ws.running THEN "listen" ELSE "off"
    /\ UNCHANGED <<settings, inventory, redeem, backoff, running, signalled, exitHow, gatherRaised,
                   cancelAllCalled, closed, ws, current_orderbook,
                   last_quote_time, prev_quote_time, lastCall, cyc, now, venueOrders,
                   lastFeed>>

\* gather returns when every task has ended, or raises as soon as one task
\* has raised (the other tasks go on); the finally clause runs cleanup,
\* which clears running and awaits cancel_all_orders.
GatherEnds ==
    \/ wsPc = "raised"
    \/ crPc = "done" /\ arPc = "done" /\ wsPc \in {"off", "done"}

Run_Cleanup ==
    /\ mainPc = "gather"
    /\ GatherEnds
    /\ gatherRaised' = (wsPc = "raised")
    /\ running' = FALSE
    /\ cancelAllCalled' = TRUE
    /\ mainPc' = "cancel_all_orders"
    /\ UNCHANGED <<settings, inventory, redeem, backoff, signalled, exitHow, closed, ws,
                   current_orderbook, cycleVars, now, venueOrders, arPc, wsPc,
                   lastFeed>>

\* cancel_all_orders returns: the venue has cancelled the market's orders.
Run_CancelAllReturn ==
    /\ mainPc = "cancel_all_orders"
    /\ venueOrders' = {}
    /\ mainPc' = "close"
    /\ UNCHANGED <<settings, inventory, redeem, backoff, running, signalled, exitHow, gatherRaised,
                   cancelAllCalled, closed, ws, current_orderbook, cycleVars,
                   now, arPc, wsPc, lastFeed>>

\* cancel_all_orders raises: cleanup ends with it.
Run_CancelAllRaises ==
    /\ mainPc = "cancel_all_orders"
    /\ mainPc' = "exited"
    /\ exitHow' = "raised"
    /\ UNCHANGED <<settings, inventory, redeem, backoff, running, signalled, gatherRaised,
                   cancelAllCalled, closed, ws, current_orderbook, cycleVars,
                   now, venueOrders, arPc, wsPc, lastFeed>>

\* The transports cleanup closes, one after the other.
Transports == {"rest_client", "ws_client", "order_executor", "auto_redeem"}

\* cleanup closes the four transports; closing the feed client stops it.
\* Then run() ends, with gather's exception if it raised.
Run_Close ==
    /\ mainPc = "close"
    /\ closed' = Transports
    /\ ws' = [ws EXCEPT !.running = FALSE, !.websocket = FALSE]
    /\ mainPc' = "exited"
    /\ exitHow' = IF gatherRaised THEN "raised" ELSE "returned"
    /\ UNCHANGED <<settings, inventory, redeem, backoff, running, signalled, gatherRaised,
                   cancelAllCalled, current_orderbook, cycleVars, now,
                   venueOrders, arPc, wsPc, lastFeed>>

\* -------------------------------------------------------------- bootstrap
\* _handle_signal: SIGINT or SIGTERM arrives while run() is suspended.
Signal ==
    /\ mainPc \notin {"start", "exited"}
    /\ ~signalled
    /\ running' = FALSE
    /\ signalled' = TRUE
    /\ UNCHANGED <<settings, inventory, redeem, backoff, orchVars, ws, current_orderbook,
                   cycleVars, now, venueOrders, arPc, wsPc, lastFeed>>

\* The wall clock advances. Only refresh_quotes reads it, so it is left alone
\* while the cancel-replace loop is not running.
Tick ==
    /\ now < MaxTime
    /\ crPc \notin {"off", "done"}
    /\ now' = now + 1
    /\ UNCHANGED <<settings, inventory, redeem, backoff, running, signalled, orchVars, ws,
                   current_orderbook, cycleVars, venueOrders, arPc, wsPc, lastFeed>>

Next ==
    \/ Run_Start \/ Run_MarketFound \/ Run_MarketMissing \/ Run_MarketInfoRaises
    \/ Run_OrderbookReturn \/ Run_Connected \/ Run_FeedRaises \/ Run_Subscribed
    \/ Run_Cleanup \/ Run_CancelAllReturn \/ Run_CancelAllRaises \/ Run_Close
    \/ CR_LoopExit \/ CR_Throttled \/ CR_Refresh \/ CR_RefillReturn
    \/ CR_OpenOrdersReturn \/ CR_BatchCancelReturn \/ CR_PlaceYesReturn
    \/ CR_PlaceNoReturn \/ CR_SleepReturn \/ CR_BackoffReturn
    \/ AR_LoopExit \/ AR_Iterate \/ AR_RedeemReturn \/ AR_SleepReturn
    \/ WS_Receive \/ WS_Return \/ WS_Raise
    \/ Signal \/ Tick

Spec == Init /\ [][Next]_vars

\* The scheduler runs every task that can take a step; the venue's answers
\* arrive (every await of a REST call or of a sleep returns). Nothing makes
\* the feed deliver a message, the peer close the connection, a signal
\* arrive or the clock advance.
ProgramStep ==
    \/ Run_Start \/ Run_MarketFound \/ Run_OrderbookReturn \/ Run_Connected
    \/ Run_Subscribed \/ Run_Cleanup \/ Run_CancelAllReturn \/ Run_Close
    \/ CR_LoopExit \/ CR_Throttled \/ CR_Refresh \/ CR_RefillReturn
    \/ CR_OpenOrdersReturn \/ CR_BatchCancelReturn \/ CR_PlaceYesReturn
    \/ CR_PlaceNoReturn \/ CR_SleepReturn \/ CR_BackoffReturn
    \/ AR_LoopExit \/ AR_Iterate \/ AR_RedeemReturn \/ AR_SleepReturn

FairSpec == Spec /\ WF_vars(ProgramStep)

\* ------------------------------------------------------- auto_redeem_all
\* The greatest number of positions GET /positions answers with.
MaxPositions == 3
\* settings.redeem_threshold_usd
RedeemThreshold == 2

\* The positions of an answer: with a value below, at or above the
\* threshold, with no "value" at all, with a value that is not a number.
PositionKinds ==
    {[value |-> v] : v \in {1, 2, 3, NotANumber}} \cup {EmptyDict}

\* The answers of GET /positions: lists of positions, whose id is their place.
PositionLists ==
    UNION {[1..n -> PositionKinds] : n \in 0..MaxPositions}

\* A threshold test that leaves out the positions worth the threshold itself.
Redeemable_Above(value_usd) == value_usd > RedeemThreshold

\* auto_redeem_all: value_usd >= redeem_threshold_usd.
Redeemable(value_usd) == value_usd >= RedeemThreshold

\* auto_redeem_all: the for loop from position i to its next await, the
\* redeem_position of a position that is worth the threshold; float() raises
\* on a value that is not a number; after the last position redeemed is
\* returned.
RECURSIVE RedeemFrom(_, _)
RedeemFrom(r, i) ==
    IF i > Len(r.redeemable)
    THEN [r EXCEPT !.pc = "returned", !.i = i, !.result = r.redeemed]
    ELSE LET value_usd == Get(r.redeemable[i], "value", 0)
         IN  IF value_usd = NotANumber
             THEN [r EXCEPT !.pc = "raised", !.i = i]
             ELSE IF Redeemable(value_usd)
             THEN [r EXCEPT !.pc = "redeem_position", !.i = i,
                            !.attempts = Append(@, i)]
             ELSE RedeemFrom(r, i + 1)

\* auto_redeem_all is called: it returns 0 at once when auto-redeem is
\* disabled, else it awaits check_redeemable_positions.
Redeem_Call ==
    /\ redeem.pc = "idle"
    /\ redeem' = IF ~settings.auto_redeem_enabled
                 THEN [redeem EXCEPT !.pc = "returned", !.result = 0]
                 ELSE [redeem EXCEPT !.pc = "check_redeemable_positions"]
    /\ UNCHANGED botVars

\* check_redeemable_positions returns the venue's list, or [] when the
\* request failed.
Redeem_PositionsReturn ==
    /\ redeem.pc = "check_redeemable_positions"
    /\ \/ \E l \in PositionLists :
            redeem' = RedeemFrom([redeem EXCEPT !.fetch = "ok", !.redeemable = l], 1)
       \/ redeem' = RedeemFrom([redeem EXCEPT !.fetch = "failed", !.redeemable = <<>>], 1)
    /\ UNCHANGED botVars

\* redeem_position returns True, or False when the request failed.
Redeem_RedeemReturn ==
    /\ redeem.pc = "redeem_position"
    /\ \/ redeem' = RedeemFrom([redeem EXCEPT !.redeemed = @ + 1,
                                               !.succeeded = @ \cup {redeem.i}],
                                redeem.i + 1)
       \/ redeem' = RedeemFrom(redeem, redeem.i + 1)
    /\ UNCHANGED botVars

RedeemNext == Redeem_Call \/ Redeem_PositionsReturn \/ Redeem_RedeemReturn

RedeemSpec == Init /\ [][RedeemNext]_vars

\* ------------------------------------------------------------ the claims
\* A cycle that generated no quote on either outcome.
NoQuotes == [YES |-> NoQuote, NO |-> NoQuote]

\* C1: a cycle past the throttle treats its book as invalid exactly when
\* best_bid <= 0 or best_ask >= 1; every book with best_bid > 0 and
\* best_ask < 1 goes on to quote generation.
C1_InvalidIffOutsideUnitInterval ==
    cyc.verdict \in {"invalid", "quoted"} =>
        ((cyc.verdict = "invalid") <=> (cyc.best_bid <= 0 \/ cyc.best_ask >= One))

\* C2: place_order is called for a quote only if validate_order accepted the
\* quote's side and notional (size x price) in the same cycle; a rejected
\* quote reaches the venue in no way and raises nothing out of the cycle.
C2_PlacedOnlyIfAccepted ==
    \A o \in Outcomes :
        LET q == cyc.quotes[o]
            placed == \/ o \in cyc.placeCalls
                      \/ crPc = (IF o = "YES" THEN "place_yes" ELSE "place_no")
                      \/ \E v \in venueOrders : v.id = <<cyc.n, o>>
        IN  /\ placed =>
                /\ cyc.risk[o] = "accept"
                /\ validate_order(q.side, q.size * q.price, inventory) = "accept"
            /\ cyc.risk[o] \notin {"none", "accept"} =>
                /\ ~placed
                /\ cyc.verdict = "quoted"
                /\ crPc # "backoff"

\* C2, witness: a cycle whose YES quote the gate rejected and whose NO quote
\* was placed.
C2_Witness ==
    /\ cyc.risk["YES"] = "exceeds_max_exposure"
    /\ "NO" \in cyc.placeCalls
    /\ \E v \in venueOrders : v.id = <<cyc.n, "NO">>
    /\ crPc = "sleep"

\* C3: within one cycle the stale-order cancel step (the fetch of the open
\* orders and the batch cancel) is finished before the first place_order.
C3_CancelBeforePlace ==
    /\ (\/ cyc.placeCalls # {}
        \/ crPc \in {"place_yes", "place_no"}
        \/ \E v \in venueOrders : v.id[1] = cyc.n) => cyc.cancel = "finished"
    /\ crPc \in {"get_open_orders", "batch_cancel"} =>
           /\ cyc.placeCalls = {}
           /\ cyc.cancel \in {"fetching", "cancelling"}

\* C3, witness: a cycle that passed a batch to batch_cancel_orders and then
\* called place_order.
C3_Witness ==
    /\ cyc.batchCalled
    /\ cyc.cancel = "finished"
    /\ cyc.placeCalls # {}

\* The open orders a cycle fetched whose age exceeds order_lifetime_ms.
AgedFetched == {o \in cyc.open_orders : cyc.cancel_time - o.timestamp > Lifetime}

\* C4 as claimed: a cycle that places its quotes has before that cancelled
\* every order it found still open, all of them placed by earlier cycles,
\* whatever their age.
C4_EarlierOrdersCancelled ==
    (cyc.placeCalls # {} /\ cyc.fetched = "ok") =>
        \A o \in cyc.open_orders : o.id \in cyc.batch /\ cyc.batchCalled

\* C4 as amended: a cycle that obtained the venue's open orders and places
\* quotes has before that passed to batch_cancel_orders exactly the open
\* orders whose age exceeds order_lifetime_ms; the younger ones, and all of
\* them when the fetch failed, are left alone.
C4_OnlyAgedCancelled ==
    cyc.placeCalls # {} =>
        /\ cyc.fetched = "ok" =>
               /\ cyc.batch = {o.id : o \in AgedFetched}
               /\ cyc.batchCalled = (AgedFetched # {})
        /\ cyc.fetched = "failed" => ~cyc.batchCalled /\ cyc.batch = {}
        /\ cyc.fetched # "none"

\* C4, witness: a cycle that placed a quote while an order of the cycle
\* before, which it had fetched and not put in the batch, is still open.
C4_Witness ==
    /\ cyc.placeCalls # {}
    /\ cyc.fetched = "ok"
    /\ \E v \in venueOrders :
         v.id[1] < cyc.n /\ v \in cyc.open_orders /\ v.id \notin cyc.batch

\* C5: in a cycle that obtained the venue's open orders, every open order
\* whose age exceeds order_lifetime_ms is in the batch passed to
\* batch_cancel_orders.
C5_AgedInBatch ==
    cyc.fetched = "ok" =>
        /\ \A o \in cyc.open_orders :
             cyc.cancel_time - o.timestamp > Lifetime => o.id \in cyc.batch
        /\ cyc.batch # {} => cyc.batchCalled

\* C5, witness: an order placed by the cycle before has aged and is in the
\* batch passed to batch_cancel_orders.
C5_Witness ==
    /\ cyc.batchCalled
    /\ \E o \in cyc.open_orders :
         /\ o.id[1] < cyc.n
         /\ cyc.cancel_time - o.timestamp > Lifetime
         /\ o.id \in cyc.batch

\* C6: a call of refresh_quotes made less than quote_refresh_rate_ms after
\* the last recorded quote time generates, cancels and places nothing and
\* leaves last_quote_time unchanged; so two cycles past the throttle are at
\* least quote_refresh_rate_ms apart.
C6_Throttle ==
    /\ [](cyc.n >= 2 => last_quote_time - prev_quote_time >= RefreshRate)
    /\ [][(/\ crPc = "loop" /\ crPc' # "loop" /\ running
           /\ now - last_quote_time < RefreshRate)
          => /\ lastCall' = "throttled"
             /\ crPc' = "sleep"
             /\ UNCHANGED <<last_quote_time, cyc, venueOrders, current_orderbook>>]_vars

\* C6, witness: after a first cycle, a call was throttled.
C6_Witness ==
    /\ lastCall = "throttled"
    /\ cyc.n >= 1
    /\ now - last_quote_time < RefreshRate
    /\ crPc = "sleep"

\* The validity check as written in the code, on a book.
BookPasses(book) ==
    /\ Get(book, "best_bid", 0) # NotANumber
    /\ Get(book, "best_bid", 0) > 0
    /\ Get(book, "best_ask", One) > One

\* C7 as claimed: a cycle that finds the book empty requests a REST refill and
\* is skipped: it generates no quote, cancels nothing and places nothing.
C7_EmptyBookSkipsCycle ==
    cyc.emptyAtSnapshot =>
        /\ cyc.refill # "none"
        /\ cyc.verdict # "quoted"
        /\ cyc.cancel = "none"
        /\ cyc.placeCalls = {}

\* C7 as amended: a cycle that finds the book empty requests a REST refill
\* and, when the refill has returned, goes on in the same call with the book
\* that is then current: it is skipped (no quote, no cancel, no placement)
\* exactly when that book does not pass the validity check.
C7_RefillThenSameCycle ==
    /\ [](cyc.emptyAtSnapshot => cyc.refill # "none")
    /\ [][(crPc = "update_orderbook" /\ crPc' # crPc)
          => /\ cyc.emptyAtSnapshot /\ cyc.refill = "requested"
             /\ cyc'.refill \in {"ok", "failed"}
             /\ cyc'.n = cyc.n
             /\ (cyc'.verdict = "quoted") <=> BookPasses(current_orderbook')
             /\ BookPasses(current_orderbook') => crPc' = "get_open_orders"
             /\ ~BookPasses(current_orderbook') =>
                    /\ crPc' \in {"sleep", "backoff"}
                    /\ cyc'.cancel = "none"
                    /\ cyc'.placeCalls = {}]_vars

\* C7, witness: a cycle that found the book empty, refilled it and placed a
\* quote.
C7_Witness ==
    /\ cyc.emptyAtSnapshot
    /\ cyc.refill = "ok"
    /\ cyc.placeCalls # {}

\* C8: a cycle whose book has best_bid >= best_ask generates and places no
\* quote.
C8_NoQuoteOnCrossedBook ==
    (cyc.verdict \in {"invalid", "quoted"} /\ cyc.best_bid >= cyc.best_ask) =>
        /\ cyc.quotes = NoQuotes
        /\ cyc.placeCalls = {}

\* C9 as claimed: a feed update whose sequence is beyond the book's
\* sequence + 1 is not installed as the book.
C9_GapNotInstalled == lastFeed.gap => ~lastFeed.installed

\* C9 as amended: a feed update of the configured market that reaches the
\* registered handler is installed as the book also when its sequence is
\* beyond the book's sequence + 1.
C9_GapInstalled ==
    (lastFeed.gap /\ lastFeed.handled /\ lastFeed.mine) => lastFeed.installed

\* C9, witness: an update with a sequence gap has been installed and is the
\* book.
C9_Witness ==
    /\ lastFeed.gap /\ lastFeed.handled /\ lastFeed.mine /\ lastFeed.installed
    /\ Get(current_orderbook, "sequence", 0) = 3

\* C10: after a shutdown signal, with the tasks started, the orchestrator
\* eventually calls cancel_all_orders.
C10_SignalLeadsToCleanup ==
    (signalled /\ mainPc = "gather") ~> cancelAllCalled

\* C11: whenever run() has ended, cleanup has run before: cancel_all_orders
\* was called (and the transports were closed).
C11_ExitAfterCleanup == mainPc = "exited" => cancelAllCalled

\* C19: when cleanup has called cancel_all_orders and run() has ended, the
\* four transports are closed, also when cancel_all_orders raised.
C19_TransportsClosedAfterCancelAll ==
    (mainPc = "exited" /\ cancelAllCalled) => closed = Transports

\* C13: an iteration whose fetch of the open orders raised issues no
\* place_order.
C13_NoPlaceAfterFailedCancel ==
    cyc.fetched = "failed" =>
        /\ cyc.placeCalls = {}
        /\ crPc \notin {"place_yes", "place_no"}

\* C12: when place_order raised in a cycle (a signing failure), the
\* cancel-replace loop does not go on: no further placement, no sleep, no
\* next iteration.
C12_PlaceFailureEndsLoop ==
    cyc.placeRaised # {} => crPc \notin {"place_no", "sleep", "loop", "backoff"}

\* C15: in one cycle place_order is invoked at most once for each quote,
\* also when the call raised.
C15_AtMostOnePlacePerQuote ==
    \A o \in Outcomes :
        /\ cyc.placeCount[o] <= 1
        /\ cyc.placeCount[o] = 1 <=> o \in cyc.placeCalls
        /\ cyc.placeCount[o] = 1 => cyc.quotes[o] # NoQuote

\* C15, witness: the place_order of the YES quote raised, the cycle went on
\* and ended with that one call for YES.
C15_Witness ==
    /\ "YES" \in cyc.placeRaised
    /\ cyc.placeCount["YES"] = 1
    /\ crPc \in {"place_no", "sleep"}

\* C16: no place_order is issued once cleanup has called cancel_all_orders.
C16_NoPlaceAfterCancelAll == cyc.afterCancelAll = {}

\* C14 as claimed: the sleep after a failed iteration grows linearly with
\* the failed iterations in a row, from 1 s up to 5 s.
C14_LinearBackoff ==
    crPc = "backoff" =>
        backoff.delay = (IF backoff.failures <= 5 THEN backoff.failures ELSE 5)

\* C14 as amended: the sleep after a failed iteration is 1 s whatever the
\* number of failed iterations in a row; after it the loop goes on with the
\* next iteration, and the loop ends only when running is false.
C14_ConstantBackoff ==
    /\ [](crPc = "backoff" => backoff.failures >= 1 /\ backoff.delay = 1)
    /\ [][(crPc = "backoff" /\ crPc' # "backoff") => crPc' = "loop"]_vars
    /\ [][(crPc # "done" /\ crPc' = "done") => (crPc = "loop" /\ ~running)]_vars

\* C14, witness: the second failed iteration in a row sleeps 1 s.
C14_Witness ==
    /\ crPc = "backoff"
    /\ backoff.failures = 2
    /\ backoff.delay = 1

\* C17: every book update received for the configured market replaces
\* current_orderbook: none reaches a listener without the handler.
C17_UpdateInstalled ==
    (lastFeed.update /\ lastFeed.mine /\ lastFeed.hasBook) =>
        (lastFeed.handled /\ lastFeed.installed)

\* C18: the best_bid and best_ask of a cycle are read from one version of
\* the book, the one current when the cycle read it; a replacement of the
\* book by the feed handler or a refill changes neither afterwards.
C18_OneBookVersion ==
    /\ [](cyc.verdict \in {"invalid", "quoted"} =>
            /\ cyc.best_bid = Get(cyc.book, "best_bid", 0)
            /\ cyc.best_ask = Get(cyc.book, "best_ask", One))
    /\ [][((cyc'.n # cyc.n \/ cyc.verdict = "none") /\ cyc'.verdict # "none")
          => cyc'.book = current_orderbook']_vars
    /\ [][(cyc'.n = cyc.n /\ cyc.verdict # "none")
          => /\ cyc'.book = cyc.book
             /\ cyc'.best_bid = cyc.best_bid
             /\ cyc'.best_ask = cyc.best_ask
             /\ cyc'.quotes = cyc.quotes]_vars

\* C18, witness: while a cycle that generated its quotes is suspended, the
\* feed handler has replaced the book by one with another best_ask; the
\* cycle's best_bid and best_ask are those of the book it read.
C18_Witness ==
    /\ cyc.verdict = "quoted"
    /\ crPc \in {"get_open_orders", "batch_cancel", "place_yes", "place_no"}
    /\ lastFeed.installed
    /\ Get(current_orderbook, "best_ask", One) # cyc.best_ask
    /\ cyc.best_bid = Get(cyc.book, "best_bid", 0)
    /\ cyc.best_ask = Get(cyc.book, "best_ask", One)

\* The places of the positions of the list l, from place i on, that are
\* worth redeem_threshold_usd or more, in the order of the list.
RECURSIVE EligibleFrom(_, _)
EligibleFrom(l, i) ==
    IF i > Len(l) THEN <<>>
    ELSE IF Get(l[i], "value", 0) >= RedeemThreshold
    THEN <<i>> \o EligibleFrom(l, i + 1)
    ELSE EligibleFrom(l, i + 1)

\* C20: auto_redeem_all attempts the redemption once for each position worth
\* redeem_threshold_usd or more and for no other, goes on after a failed
\* redemption, and returns the number of redemptions that succeeded; it
\* returns 0 with no attempt when auto-redeem is disabled or the fetch of
\* the positions failed.
C20_RedeemAll ==
    /\ \A k \in 1..Len(redeem.attempts) :
         /\ redeem.attempts[k] \in 1..Len(redeem.redeemable)
         /\ Get(redeem.redeemable[redeem.attempts[k]], "value", 0) >= RedeemThreshold
         /\ \A j \in 1..Len(redeem.attempts) :
              redeem.attempts[j] = redeem.attempts[k] => j = k
    /\ redeem.succeeded \subseteq {redeem.attempts[k] : k \in 1..Len(redeem.attempts)}
    /\ redeem.pc = "returned" =>
         /\ redeem.attempts = EligibleFrom(redeem.redeemable, 1)
         /\ redeem.result = Cardinality(redeem.succeeded)
         /\ (~settings.auto_redeem_enabled \/ redeem.fetch = "failed") =>
                redeem.attempts = <<>> /\ redeem.result = 0

\* C20, witness: a call that skipped a position below the threshold, went
\* on after a failed redemption and returned the one redemption that
\* succeeded.
C20_Witness ==
    /\ redeem.pc = "returned"
    /\ Len(redeem.redeemable) = 3
    /\ Len(redeem.attempts) = 2
    /\ redeem.attempts[1] \notin redeem.succeeded
    /\ redeem.attempts[2] \in redeem.succeeded
    /\ redeem.result = 1
    /\ \E k \in 1..3 : Get(redeem.redeemable[k], "value", 0) = RedeemThreshold

====
